---- MODULE Spec2Model ----
(***************************************************************************)
(* Model of contabilita.py: the description normaliser                     *)
(* (normalizza_nome_cliente), the similarity score the engine uses         *)
(* (difflib.SequenceMatcher(None, a, b).ratio()) and the greedy            *)
(* reconciliation engine (riconcilia_transazioni).                         *)
(*                                                                         *)
(* Conventions.                                                            *)
(*  - A Python str is a sequence of one-character strings.                 *)
(*  - Amounts and the tolerance are floats of integer value, on which the  *)
(*    subtraction, abs and the comparisons of the code are exact.          *)
(*  - A similarity is a fraction <<num, den>> with den > 0; two fractions  *)
(*    are compared by cross-multiplication, which agrees with the          *)
(*    comparison of the correctly rounded float quotients 2.0*M/T.         *)
(*  - A row identifier is the position of the row in the table.            *)
(***************************************************************************)
EXTENDS Integers, Sequences, FiniteSets, TLC

VARIABLES
    \* ---- riconcilia_transazioni ----
    df,                  \* the input table: sequence of rows
    tolleranza,          \* parameter
    soglia_similarita,   \* parameter (fraction)
    nome_norm,           \* df_lavoro['Nome_Norm'], by identifier
    crediti,             \* credit pool: identifiers in scan order
    debiti,              \* debit pool: identifiers in scan order
    riconciliati,        \* list of emitted pairs
    id_usati_debito,
    id_usati_credito,
    i,                   \* position of the outer loop in debiti
    j,                   \* position of the inner loop in crediti
    miglior,             \* [match, similarita, diff]: the best-so-far triple
    id_riconciliati,
    df_residui,          \* identifiers of the residue rows
    pc,
    \* ---- normalizza_nome_cliente applied twice ----
    descrizione,
    nome_una,
    nome_due,
    pcN

vars == <<df, tolleranza, soglia_similarita, nome_norm, crediti, debiti,
          riconciliati, id_usati_debito, id_usati_credito, i, j, miglior,
          id_riconciliati, df_residui, pc, descrizione, nome_una, nome_due, pcN>>

engineVars == <<df, tolleranza, soglia_similarita, nome_norm, crediti, debiti,
                riconciliati, id_usati_debito, id_usati_credito, i, j, miglior,
                id_riconciliati, df_residui, pc>>

normVars == <<descrizione, nome_una, nome_due, pcN>>

(***************************************************************************)
(* Strings                                                                 *)
(***************************************************************************)

\* A value that is not a str (an empty spreadsheet cell is read as NaN).
NonStringa == <<"<NaN>">>

\* str.upper() on the characters the model uses.
Upper(c) ==
    CASE c = "s" -> "S"
      [] c = "r" -> "R"
      [] c = "l" -> "L"
      [] c = "c" -> "C"
      [] c = "a" -> "A"
      [] c = "b" -> "B"
      [] OTHER -> c

UpperStr(s) == [k \in 1..Len(s) |-> Upper(s[k])]

\* \s of the regular expressions, on the characters the model uses.
IsSpace(c) == c = " "

\* \w of the regular expressions: letters, digits and underscore.
IsWordChar(c) ==
    c \in {"A", "B", "C", "D", "E", "F", "G", "H", "I", "J", "K", "L", "M",
           "N", "O", "P", "Q", "R", "S", "T", "U", "V", "W", "X", "Y", "Z",
           "a", "b", "c", "l", "r", "s", "0", "1", "_"}

\* Whether w occurs in s starting at position p.
StartsWithAt(s, p, w) ==
    /\ p >= 1
    /\ p + Len(w) - 1 <= Len(s)
    /\ \A k \in 1..Len(w) : s[p + k - 1] = w[k]

\* The first position >= p that holds no whitespace (\s* is greedy).
RECURSIVE SkipSpaces(_, _)
SkipSpaces(s, p) ==
    IF p <= Len(s) /\ IsSpace(s[p]) THEN SkipSpaces(s, p + 1) ELSE p

PrefissoBDS == <<"B", "D", "S", "-">>
PrefissoBON == <<"B", "O", "N", " ", "V", "I", "T", "T", "O", "R", "I", "A",
                 " ", "S", "I", "N">>

\* re.sub(r'^(BDS-\s*)?BON VITTORIA SIN\s*', '', nome): anchored, so at most
\* one substitution, at the start of the string.
RimuoviPrefisso(s) ==
    LET p0 == IF StartsWithAt(s, 1, PrefissoBDS)
              THEN SkipSpaces(s, 1 + Len(PrefissoBDS))
              ELSE 1
    IN  IF StartsWithAt(s, p0, PrefissoBON)
        THEN SubSeq(s, SkipSpaces(s, p0 + Len(PrefissoBON)), Len(s))
        ELSE s

parole_da_rimuovere ==
    << <<"S", "N", "C">>, <<"S", "A", "S">>, <<"S", "R", "L">>,
       <<"S", "P", "A">>, <<"D", "I">>, <<"&">>, <<"C">>,
       <<"E", "S", "T", "I", "N", "T", "O", "R", "I">>,
       <<"T", "R", "A", "P", "U", "N", "T", "I", "F", "I", "C", "I", "O">>,
       <<"A", "R", "R", "E", "D", "A", "M", "E", "N", "T">> >>

\* \b just before position q of s (q in 1..Len(s)+1): exactly one of the
\* characters q-1 and q is a word character; outside the string counts as not.
WordAt(s, q) == q >= 1 /\ q <= Len(s) /\ IsWordChar(s[q])
Boundary(s, q) == WordAt(s, q - 1) # WordAt(s, q)

\* r'\b' + re.escape(parola) + r'\b' matches at position p.
ParolaAt(s, w, p) ==
    /\ StartsWithAt(s, p, w)
    /\ Boundary(s, p)
    /\ Boundary(s, p + Len(w))

\* re.sub(pattern, '', nome): the non-overlapping matches, left to right,
\* the assertions being evaluated on the string before substitution.
RECURSIVE RimuoviDa(_, _, _)
RimuoviDa(s, w, p) ==
    IF p > Len(s) THEN <<>>
    ELSE IF ParolaAt(s, w, p) THEN RimuoviDa(s, w, p + Len(w))
    ELSE <<s[p]>> \o RimuoviDa(s, w, p + 1)

RimuoviParola(s, w) == RimuoviDa(s, w, 1)

\* for parola in parole_da_rimuovere: nome = re.sub(...)
RECURSIVE RimuoviParole(_, _)
RimuoviParole(s, k) ==
    IF k > Len(parole_da_rimuovere) THEN s
    ELSE RimuoviParole(RimuoviParola(s, parole_da_rimuovere[k]), k + 1)

\* re.sub(r'\s+', ' ', nome)
RECURSIVE CollassaDa(_, _)
CollassaDa(s, p) ==
    IF p > Len(s) THEN <<>>
    ELSE IF IsSpace(s[p]) THEN <<" ">> \o CollassaDa(s, SkipSpaces(s, p))
    ELSE <<s[p]>> \o CollassaDa(s, p + 1)

CollassaSpazi(s) == CollassaDa(s, 1)

\* str.strip()
RECURSIVE StripDestra(_)
StripDestra(s) ==
    IF Len(s) > 0 /\ IsSpace(s[Len(s)]) THEN StripDestra(SubSeq(s, 1, Len(s) - 1))
    ELSE s

Strip(s) == StripDestra(SubSeq(s, SkipSpaces(s, 1), Len(s)))

ND == <<"N", "/", "D">>

\* normalizza_nome_cliente(descrizione)
normalizza_nome_cliente(d) ==
    IF d = NonStringa THEN ND
    ELSE LET nome        == RimuoviParole(RimuoviPrefisso(UpperStr(d)), 1)
             nome_pulito == Strip(CollassaSpazi(nome))
         IN  IF nome_pulito = <<>> THEN ND ELSE nome_pulito

(***************************************************************************)
(* difflib.SequenceMatcher(None, a, b).ratio()                             *)
(* isjunk is None and the tokens are far shorter than 200 characters, so   *)
(* no element of b is junk or "popular".                                   *)
(***************************************************************************)

\* Length of the common run of a[p..ahi] and b[q..bhi] starting at (p, q).
RECURSIVE RunLen(_, _, _, _, _, _)
RunLen(a, b, p, q, ahi, bhi) ==
    IF p <= ahi /\ q <= bhi /\ a[p] = b[q]
    THEN 1 + RunLen(a, b, p + 1, q + 1, ahi, bhi)
    ELSE 0

\* find_longest_match(alo, ahi, blo, bhi) on the inclusive windows
\* a[alo..ahi], b[blo..bhi]: <<p, q, k>> with k maximal, then p minimal,
\* then q minimal; <<alo, blo, 0>> when nothing matches.
find_longest_match(a, b, alo, ahi, blo, bhi) ==
    LET Starts == (alo..ahi) \X (blo..bhi)
        Size(st) == RunLen(a, b, st[1], st[2], ahi, bhi)
        Longest == {st \in Starts : \A ot \in Starts : Size(ot) <= Size(st)}
        First == {st \in Longest :
                     \A ot \in Longest :
                         \/ st[1] < ot[1]
                         \/ st[1] = ot[1] /\ st[2] <= ot[2]}
    IN  IF Starts = {} \/ \A st \in Starts : Size(st) = 0
        THEN <<alo, blo, 0>>
        ELSE LET st == CHOOSE x \in First : TRUE
             IN  <<st[1], st[2], Size(st)>>

\* Sum of the sizes of get_matching_blocks(): the longest match, then the
\* same on the pieces to its left and to its right.
RECURSIVE Matches(_, _, _, _, _, _)
Matches(a, b, alo, ahi, blo, bhi) ==
    IF alo > ahi \/ blo > bhi THEN 0
    ELSE LET m == find_longest_match(a, b, alo, ahi, blo, bhi)
         IN  IF m[3] = 0 THEN 0
             ELSE m[3]
                  + Matches(a, b, alo, m[1] - 1, blo, m[2] - 1)
                  + Matches(a, b, m[1] + m[3], ahi, m[2] + m[3], bhi)

\* ratio(): 2.0 * matches / (len(a) + len(b)), and 1.0 for two empty strings.
ratio(a, b) ==
    IF Len(a) + Len(b) = 0 THEN <<1, 1>>
    ELSE <<2 * Matches(a, b, 1, Len(a), 1, Len(b)), Len(a) + Len(b)>>

\* Comparison of fractions with positive denominators.
FracLt(x, y) == x[1] * y[2] < y[1] * x[2]
FracEq(x, y) == x[1] * y[2] = y[1] * x[2]
FracGe(x, y) == ~FracLt(x, y)
FracGt(x, y) == FracLt(y, x)

(***************************************************************************)
(* riconcilia_transazioni(df, tolleranza, soglia_similarita)               *)
(*                                                                         *)
(* A row carries the columns the matching reads: Dare_Num, Avere_Num and   *)
(* Descrizione.  Data_Reg is only copied into the output and Importo_Unico *)
(* is never read, so neither is modelled.  An emitted pair carries, beside *)
(* the columns of the code, the identifiers of its two rows (ID_Dare,      *)
(* ID_Avere): history fields the code does not store, used to state        *)
(* properties about identifiers.                                           *)
(***************************************************************************)

MaxRighe == 3

dAB    == <<"A", "B">>
dABSRL == <<"a", "b", " ", "S", "R", "L">>
dAC    == <<"A", "C">>
dSRL   == <<"S", "R", "L">>

Riga(dare, avere, descr) ==
    [Dare_Num |-> dare, Avere_Num |-> avere, Descrizione |-> descr]

\* The rows an input table is made of: debits, credits, a row with both
\* amounts, a row with neither, descriptions that normalise to the same
\* token, to different tokens and to "N/D".
Righe ==
    << Riga(100, 0, dAB), Riga(101, 0, dAC), Riga(100, 0, dSRL),
       Riga(0, 100, dABSRL), Riga(0, 101, dAB), Riga(0, 101, dAC),
       Riga(0, 100, NonStringa),
       Riga(100, 100, dAB),
       Riga(0, 0, dAB) >>

\* The input tables of MaxRighe rows.  The engine reads the position of a
\* row only as its identifier and the sort may place rows of equal amount
\* in any order, so a table is taken up to the order of its rows: the rows
\* are listed in the order of Righe.
Tabelle ==
    {[k \in 1..MaxRighe |-> Righe[f[k]]] :
        f \in {g \in [1..MaxRighe -> 1..Len(Righe)] :
                  \A a, b \in 1..MaxRighe : a < b => g[a] <= g[b]}}

Tolleranze == {0, 1}
Soglie == {<<0, 20>>, <<6, 20>>, <<20, 20>>}

Abs(x) == IF x < 0 THEN 0 - x ELSE x

\* float('inf'): larger than every amount difference.
PosInf == 1000000

IDs == 1..Len(df)

\* sort_values(key) of the rows in S: pandas sorts with the default
\* kind='quicksort', which is not stable, so rows of equal amount may come
\* out in any relative order: every ascending arrangement is possible.
Ordinamenti(S, key) ==
    {s \in [1..Cardinality(S) -> S] :
        /\ \A a, b \in 1..Cardinality(S) : a # b => s[a] # s[b]
        /\ \A a, b \in 1..Cardinality(S) : a < b => key[s[a]] <= key[s[b]]}

Avere(id) == df[id].Avere_Num
Dare(id) == df[id].Dare_Num
\* The two sort columns.
ColAvere == [id \in IDs |-> df[id].Avere_Num]
ColDare == [id \in IDs |-> df[id].Dare_Num]

\* miglior_match = None; miglior_similarita = -1.0; miglior_diff = inf
MigliorIniziale == [match |-> <<>>, similarita |-> <<0 - 1, 1>>, diff |-> PosInf]

\* Mutant of Consumato: the consumed check is dropped.
MutConsumatoMai(id, usati) == FALSE

\* credito['ID_Originale'] in id_usati_credito
Consumato(id, usati) == id \in usati

\* abs(debito['Dare_Num'] - credito['Avere_Num'])
Differenza(d, c) == Abs(Dare(d) - Avere(c))

\* diff <= tolleranza
EntroTolleranza(diff, tol) == diff <= tol

\* The similarity of two identity tokens, "N/D" forcing 0.0.
Similarita(nome_debito, nome_credito) ==
    IF nome_debito = ND \/ nome_credito = ND
    THEN <<0, 1>>
    ELSE ratio(nome_debito, nome_credito)

\* Mutant of SopraSoglia: > in place of >=.
MutSopraSogliaStretta(sim, soglia) == FracGt(sim, soglia)

\* similarita >= soglia_similarita
SopraSoglia(sim, soglia) == FracGe(sim, soglia)

\* Mutant of Aggiorna: on equal similarity the credit is replaced but
\* miglior_diff is not updated.
MutAggiornaSenzaDiff(best, credito, sim, diff) ==
    IF FracGt(sim, best.similarita)
    THEN [match |-> <<credito>>, similarita |-> sim, diff |-> diff]
    ELSE IF FracEq(sim, best.similarita) /\ diff < best.diff
         THEN [best EXCEPT !.match = <<credito>>]
         ELSE best

\* Mutant of Aggiorna: on higher similarity miglior_similarita is not updated.
MutAggiornaSenzaSimilarita(best, credito, sim, diff) ==
    IF FracGt(sim, best.similarita)
    THEN [match |-> <<credito>>, similarita |-> best.similarita, diff |-> diff]
    ELSE IF FracEq(sim, best.similarita) /\ diff < best.diff
         THEN [best EXCEPT !.diff = diff, !.match = <<credito>>]
         ELSE best

\* Mutant of Aggiorna: <= in place of < on the difference, so that the last
\* of the candidates tied on both criteria wins.
MutAggiornaUltimoVince(best, credito, sim, diff) ==
    IF FracGt(sim, best.similarita)
    THEN [match |-> <<credito>>, similarita |-> sim, diff |-> diff]
    ELSE IF FracEq(sim, best.similarita) /\ diff <= best.diff
         THEN [best EXCEPT !.diff = diff, !.match = <<credito>>]
         ELSE best

\* Mutant of Aggiorna: the first candidate is kept and never replaced.
MutAggiornaPrimoCandidato(best, credito, sim, diff) ==
    IF best.match = <<>>
    THEN [match |-> <<credito>>, similarita |-> sim, diff |-> diff]
    ELSE best

\* The candidate is compared with the best so far.
Aggiorna(best, credito, sim, diff) ==
    IF FracGt(sim, best.similarita)
    THEN [match |-> <<credito>>, similarita |-> sim, diff |-> diff]
    ELSE IF FracEq(sim, best.similarita) /\ diff < best.diff
         THEN [best EXCEPT !.diff = diff, !.match = <<credito>>]
         ELSE best

\* One iteration of "for credito in crediti" for the debit d.
ScanStep(best, d, c, usati, nomi, tol, soglia) ==
    IF Consumato(c, usati) THEN best
    ELSE LET diff == Differenza(d, c)
         IN  IF EntroTolleranza(diff, tol)
             THEN LET sim == Similarita(nomi[d], nomi[c])
                  IN  IF SopraSoglia(sim, soglia)
                      THEN Aggiorna(best, c, sim, diff)
                      ELSE best
             ELSE best

\* The record appended to riconciliati.
Coppia(d, best) ==
    [Descrizione_Dare  |-> df[d].Descrizione,
     Importo_Dare      |-> df[d].Dare_Num,
     Descrizione_Avere |-> df[best.match[1]].Descrizione,
     Importo_Avere     |-> df[best.match[1]].Avere_Num,
     Differenza        |-> best.diff,
     Similarita_Desc   |-> best.similarita,
     ID_Dare           |-> d,
     ID_Avere          |-> best.match[1]]

NormFermo ==
    /\ descrizione = <<>>
    /\ nome_una = <<>>
    /\ nome_due = <<>>
    /\ pcN = "off"

Init ==
    /\ df \in Tabelle
    /\ tolleranza \in Tolleranze
    /\ soglia_similarita \in Soglie
    /\ nome_norm = <<>>
    /\ crediti = <<>>
    /\ debiti = <<>>
    /\ riconciliati = <<>>
    /\ id_usati_debito = {}
    /\ id_usati_credito = {}
    /\ i = 1
    /\ j = 1
    /\ miglior = MigliorIniziale
    /\ id_riconciliati = {}
    /\ df_residui = {}
    /\ pc = "start"
    /\ NormFermo

\* Working copy, normalised names, the two sorted pools, the empty results.
Prepara ==
    /\ pc = "start"
    /\ nome_norm' = [id \in IDs |-> normalizza_nome_cliente(df[id].Descrizione)]
    /\ crediti' \in Ordinamenti({id \in IDs : df[id].Avere_Num > 0}, ColAvere)
    /\ debiti' \in Ordinamenti({id \in IDs : df[id].Dare_Num > 0}, ColDare)
    /\ riconciliati' = <<>>
    /\ id_usati_debito' = {}
    /\ id_usati_credito' = {}
    /\ i' = 1
    /\ pc' = "debito"
    /\ UNCHANGED <<df, tolleranza, soglia_similarita, j, miglior,
                   id_riconciliati, df_residui, normVars>>

\* for debito in debiti: the skip of a consumed debit, else the reset of
\* the best-so-far triple.
InizioDebito ==
    /\ pc = "debito"
    /\ i <= Len(debiti)
    /\ IF Consumato(debiti[i], id_usati_debito)
       THEN /\ i' = i + 1
            /\ UNCHANGED <<j, miglior, pc>>
       ELSE /\ miglior' = MigliorIniziale
            /\ j' = 1
            /\ pc' = "credito"
            /\ UNCHANGED i
    /\ UNCHANGED <<df, tolleranza, soglia_similarita, nome_norm, crediti,
                   debiti, riconciliati, id_usati_debito, id_usati_credito,
                   id_riconciliati, df_residui, normVars>>

\* for credito in crediti: one iteration.
ScanCredito ==
    /\ pc = "credito"
    /\ j <= Len(crediti)
    /\ miglior' = ScanStep(miglior, debiti[i], crediti[j], id_usati_credito,
                           nome_norm, tolleranza, soglia_similarita)
    /\ j' = j + 1
    /\ UNCHANGED <<df, tolleranza, soglia_similarita, nome_norm, crediti,
                   debiti, riconciliati, id_usati_debito, id_usati_credito,
                   i, id_riconciliati, df_residui, pc, normVars>>

\* if miglior_match: the pair is appended and both rows are consumed.
FineScan ==
    /\ pc = "credito"
    /\ j > Len(crediti)
    /\ IF miglior.match # <<>>
       THEN /\ riconciliati' = Append(riconciliati, Coppia(debiti[i], miglior))
            /\ id_usati_debito' = id_usati_debito \cup {debiti[i]}
            /\ id_usati_credito' = id_usati_credito \cup {miglior.match[1]}
       ELSE UNCHANGED <<riconciliati, id_usati_debito, id_usati_credito>>
    /\ i' = i + 1
    /\ pc' = "debito"
    /\ UNCHANGED <<df, tolleranza, soglia_similarita, nome_norm, crediti,
                   debiti, j, miglior, id_riconciliati, df_residui, normVars>>

\* After the loop: the union of the consumed sets and the residue.
Fine ==
    /\ pc = "debito"
    /\ i > Len(debiti)
    /\ id_riconciliati' = id_usati_debito \cup id_usati_credito
    /\ df_residui' = {id \in IDs : id \notin id_riconciliati'}
    /\ pc' = "done"
    /\ UNCHANGED <<df, tolleranza, soglia_similarita, nome_norm, crediti,
                   debiti, riconciliati, id_usati_debito, id_usati_credito,
                   i, j, miglior, normVars>>

Next ==
    \/ Prepara
    \/ InizioDebito
    \/ ScanCredito
    \/ FineScan
    \/ Fine

Spec == Init /\ [][Next]_vars

(***************************************************************************)
(* The whole run as a function of the two pool orders, folding ScanStep    *)
(* as the two loops do.  The debits of a pool are distinct rows, so the    *)
(* skip of a consumed debit never applies.                                 *)
(***************************************************************************)

\* The inner loop over cseq from position k on.
RECURSIVE ScanTutti(_, _, _, _, _)
ScanTutti(best, d, cseq, k, usati) ==
    IF k > Len(cseq) THEN best
    ELSE ScanTutti(ScanStep(best, d, cseq[k], usati, nome_norm, tolleranza,
                            soglia_similarita),
                   d, cseq, k + 1, usati)

\* The outer loop over dseq from position k on: the set of <<debit, credit>>
\* identifiers paired.
RECURSIVE EseguiDa(_, _, _, _, _)
EseguiDa(dseq, cseq, k, usati, coppie) ==
    IF k > Len(dseq) THEN coppie
    ELSE LET best == ScanTutti(MigliorIniziale, dseq[k], cseq, 1, usati)
         IN  IF best.match # <<>>
             THEN EseguiDa(dseq, cseq, k + 1, usati \cup {best.match[1]},
                           coppie \cup {<<dseq[k], best.match[1]>>})
             ELSE EseguiDa(dseq, cseq, k + 1, usati, coppie)

\* The ascending order a stable sort gives: equal amounts by identifier.
OrdineStabile(S, key) ==
    CHOOSE s \in Ordinamenti(S, key) :
        \A a, b \in 1..Cardinality(S) :
            (a < b /\ key[s[a]] = key[s[b]]) => s[a] < s[b]

CoppieStabili ==
    EseguiDa(OrdineStabile({id \in IDs : df[id].Dare_Num > 0}, ColDare),
             OrdineStabile({id \in IDs : df[id].Avere_Num > 0}, ColAvere),
             1, {}, {})

(***************************************************************************)
(* normalizza_nome_cliente applied to a description and then to its own    *)
(* result.                                                                 *)
(***************************************************************************)

MaxFrammenti == 3

\* The pieces the descriptions are built from.
Frammenti ==
    { PrefissoBON, PrefissoBDS, <<" ">>, <<"S">>, <<"R", "L">>, <<"&">>,
      <<"A", "B">>, <<"c">> }

RECURSIVE Concatenazioni(_)
Concatenazioni(n) ==
    IF n = 0 THEN {<<>>}
    ELSE LET prima == Concatenazioni(n - 1)
         IN  prima \cup {x \o f : x \in prima, f \in Frammenti}

Descrizioni == Concatenazioni(MaxFrammenti) \cup {NonStringa}

EngineFermo ==
    /\ df = <<>>
    /\ tolleranza = 0
    /\ soglia_similarita = <<0, 1>>
    /\ nome_norm = <<>>
    /\ crediti = <<>>
    /\ debiti = <<>>
    /\ riconciliati = <<>>
    /\ id_usati_debito = {}
    /\ id_usati_credito = {}
    /\ i = 1
    /\ j = 1
    /\ miglior = MigliorIniziale
    /\ id_riconciliati = {}
    /\ df_residui = {}
    /\ pc = "off"

InitNorm ==
    /\ descrizione \in Descrizioni
    /\ nome_una = <<>>
    /\ nome_due = <<>>
    /\ pcN = "start"
    /\ EngineFermo

NormalizzaUna ==
    /\ pcN = "start"
    /\ nome_una' = normalizza_nome_cliente(descrizione)
    /\ pcN' = "una"
    /\ UNCHANGED <<descrizione, nome_due, engineVars>>

NormalizzaDue ==
    /\ pcN = "una"
    /\ nome_due' = normalizza_nome_cliente(nome_una)
    /\ pcN' = "due"
    /\ UNCHANGED <<descrizione, nome_una, engineVars>>

NextNorm ==
    \/ NormalizzaUna
    \/ NormalizzaDue

SpecNorm == InitNorm /\ [][NextNorm]_vars

(***************************************************************************)
(* Properties                                                              *)
(***************************************************************************)

NCoppie == Len(riconciliati)
LatoDare == {riconciliati[k].ID_Dare : k \in 1..NCoppie}
LatoAvere == {riconciliati[k].ID_Avere : k \in 1..NCoppie}
\* The credits paired before the k-th pair was emitted.
AverePrima(k) == {riconciliati[m].ID_Avere : m \in 1..(k - 1)}

PoolDare == {id \in IDs : df[id].Dare_Num > 0}
PoolAvere == {id \in IDs : df[id].Avere_Num > 0}

DiffID(d, c) == Abs(df[d].Dare_Num - df[c].Avere_Num)
SimID(d, c) == Similarita(nome_norm[d], nome_norm[c])
\* The credit c is acceptable for the debit d.
Accettabile(d, c) ==
    /\ DiffID(d, c) <= tolleranza
    /\ FracGe(SimID(d, c), soglia_similarita)

PosIn(seq, x) == CHOOSE q \in 1..Len(seq) : seq[q] = x

\* How many times id occurs in the output: as debit side, as credit side,
\* in the residue.
Occorrenze(id) ==
    Cardinality({k \in 1..NCoppie : riconciliati[k].ID_Dare = id})
    + Cardinality({k \in 1..NCoppie : riconciliati[k].ID_Avere = id})
    + (IF id \in df_residui THEN 1 ELSE 0)

\* C1: partition completeness.  After the run 2 * |pairs| + |residue| =
\* |entries| and every identifier is in exactly one of: debit side of one
\* pair, credit side of one pair, residue.
C1_PartitionCompleteness ==
    pc = "done" =>
        /\ 2 * NCoppie + Cardinality(df_residui) = Len(df)
        /\ \A id \in IDs : Occorrenze(id) = 1

\* C2: an entry whose identity token is "N/D" is never a side of a pair,
\* whatever the tolerance and the threshold, and ends in the residue.
C2_NDNeverPaired ==
    /\ \A k \in 1..NCoppie :
          /\ nome_norm[riconciliati[k].ID_Dare] # ND
          /\ nome_norm[riconciliati[k].ID_Avere] # ND
    /\ pc = "done" =>
          \A id \in IDs : nome_norm[id] = ND => id \in df_residui

\* C3: tolerance respect.  Every emitted pair has |Importo_Dare -
\* Importo_Avere| <= tolerance, its Differenza is exactly that absolute
\* difference, and its amounts are those of the debit and of the credit
\* emitted.
C3_ToleranceRespect ==
    \A k \in 1..NCoppie :
        LET p == riconciliati[k]
        IN  /\ p.Importo_Dare = df[p.ID_Dare].Dare_Num
            /\ p.Importo_Avere = df[p.ID_Avere].Avere_Num
            /\ Abs(p.Importo_Dare - p.Importo_Avere) <= tolleranza
            /\ p.Differenza = Abs(p.Importo_Dare - p.Importo_Avere)

\* A pair whose credit replaced an earlier best: an acceptable credit that
\* was still unconsumed comes before it in the scan.
C3_Witness ==
    \E k \in 1..NCoppie :
        LET p == riconciliati[k]
        IN  \E c \in PoolAvere \ AverePrima(k) :
                /\ c # p.ID_Avere
                /\ Accettabile(p.ID_Dare, c)
                /\ PosIn(crediti, c) < PosIn(crediti, p.ID_Avere)
                /\ DiffID(p.ID_Dare, c) > p.Differenza

\* C4: threshold respect.  The Similarita_Desc of every emitted pair is the
\* similarity of the identity tokens of its debit and its credit, and it is
\* at least the threshold.
C4_ThresholdRespect ==
    \A k \in 1..NCoppie :
        LET p == riconciliati[k]
        IN  /\ FracEq(p.Similarita_Desc, SimID(p.ID_Dare, p.ID_Avere))
            /\ FracGe(p.Similarita_Desc, soglia_similarita)

\* A pair of two different tokens, emitted under a positive threshold after
\* a less similar candidate had been the best.
C4_Witness ==
    /\ FracGt(soglia_similarita, <<0, 1>>)
    /\ \E k \in 1..NCoppie :
          LET p == riconciliati[k]
          IN  /\ FracEq(p.Similarita_Desc, <<1, 1>>)
              /\ \E c \in PoolAvere \ AverePrima(k) :
                    /\ Accettabile(p.ID_Dare, c)
                    /\ PosIn(crediti, c) < PosIn(crediti, p.ID_Avere)
                    /\ FracLt(SimID(p.ID_Dare, c), <<1, 1>>)

\* C5: tie-break.  When the scan for a debit ends, the credit paired with it
\* is, among the acceptable credits not yet paired, one of maximum
\* similarity, among those one of minimum difference, and among those the
\* first in the scan order; the debit stays unpaired only if there is no
\* acceptable unpaired credit.
C5_TieBreak ==
    [][ (pc = "credito" /\ j > Len(crediti)) =>
           LET d == debiti[i]
               Pos == {k \in 1..Len(crediti) :
                          /\ crediti[k] \notin LatoAvere
                          /\ Accettabile(d, crediti[k])}
               Meglio(a, b) ==
                   \/ FracGt(SimID(d, crediti[a]), SimID(d, crediti[b]))
                   \/ /\ FracEq(SimID(d, crediti[a]), SimID(d, crediti[b]))
                      /\ DiffID(d, crediti[a]) < DiffID(d, crediti[b])
                   \/ /\ FracEq(SimID(d, crediti[a]), SimID(d, crediti[b]))
                      /\ DiffID(d, crediti[a]) = DiffID(d, crediti[b])
                      /\ a < b
           IN  IF Pos = {}
               THEN riconciliati' = riconciliati
               ELSE \E k \in Pos :
                       /\ \A o \in Pos \ {k} : Meglio(k, o)
                       /\ Len(riconciliati') = NCoppie + 1
                       /\ riconciliati'[NCoppie + 1].ID_Dare = d
                       /\ riconciliati'[NCoppie + 1].ID_Avere = crediti[k]
      ]_vars

\* A pair chosen among credits tied on similarity and on difference: a rival
\* that was unpaired, equally similar and equally distant comes later in the
\* scan; and a debit left unpaired although the credit pool is not empty.
C5_Witness ==
    /\ \E k \in 1..NCoppie :
          LET p == riconciliati[k]
          IN  \E c \in PoolAvere \ AverePrima(k) :
                  /\ c # p.ID_Avere
                  /\ Accettabile(p.ID_Dare, c)
                  /\ FracEq(SimID(p.ID_Dare, c), p.Similarita_Desc)
                  /\ DiffID(p.ID_Dare, c) = p.Differenza
                  /\ PosIn(crediti, c) > PosIn(crediti, p.ID_Avere)
    /\ pc = "done"
    /\ PoolDare \ LatoDare # {}

\* C8: greedy first-claim-wins.  Debits are paired in ascending order of
\* debit amount; a credit that is the credit side of a pair is skipped by
\* every later scan; no credit is the credit side of two pairs, no debit the
\* debit side of two pairs; an emitted pair is never revised or removed.
C8_GreedyFirstClaim ==
    [][ /\ Len(riconciliati') >= NCoppie
        /\ SubSeq(riconciliati', 1, NCoppie) = riconciliati
        /\ \A a, b \in 1..Len(riconciliati') :
              a < b =>
                 /\ riconciliati'[a].ID_Avere # riconciliati'[b].ID_Avere
                 /\ riconciliati'[a].ID_Dare # riconciliati'[b].ID_Dare
                 /\ riconciliati'[a].Importo_Dare <= riconciliati'[b].Importo_Dare
        /\ (pc = "credito" /\ j <= Len(crediti) /\ crediti[j] \in LatoAvere)
              => miglior' = miglior
        /\ (pc = "debito" /\ pc' = "credito")
              => \A k \in 1..(i - 1) : Dare(debiti[k]) <= Dare(debiti[i])
      ]_vars

\* A credit claimed by an earlier debit although a later debit, processed
\* and left unpaired, is strictly more similar to it and within tolerance.
C8_Witness ==
    /\ pc = "done"
    /\ \E k \in 1..NCoppie :
          LET p == riconciliati[k]
          IN  \E d \in PoolDare \ LatoDare :
                  /\ PosIn(debiti, d) > PosIn(debiti, p.ID_Dare)
                  /\ Accettabile(d, p.ID_Avere)
                  /\ FracGt(SimID(d, p.ID_Avere), p.Similarita_Desc)

\* The pairs and the residue of the run on the stably sorted pools.
ResiduoStabile ==
    IDs \ ({x[1] : x \in CoppieStabili} \cup {x[2] : x \in CoppieStabili})
CoppieID == {<<riconciliati[k].ID_Dare, riconciliati[k].ID_Avere>> : k \in 1..NCoppie}
StessoRisultato ==
    /\ CoppieID = CoppieStabili
    /\ df_residui = ResiduoStabile

\* C9 as stated: the pairs and the residue do not depend on the order in
\* which the sort places entries of equal amount, so every ascending order
\* gives what the stable order gives.
C9_OrderIndependent == pc = "done" => StessoRisultato

ImportiDareDistinti ==
    \A a, b \in PoolDare : a # b => Dare(a) # Dare(b)
NessunPareggio ==
    \A d \in PoolDare : \A c1, c2 \in PoolAvere :
        (c1 # c2 /\ Accettabile(d, c1) /\ Accettabile(d, c2)) =>
            ~(FracEq(SimID(d, c1), SimID(d, c2)) /\ DiffID(d, c1) = DiffID(d, c2))

\* C9 amended: the pairs and the residue do not depend on the order of the
\* entries of equal amount when no two debits have the same amount and no
\* debit has two acceptable credits tied on similarity and on difference.
C9_OrderIndependentNoTies ==
    (pc = "done" /\ ImportiDareDistinti /\ NessunPareggio) => StessoRisultato

\* A finished run, free of ties, whose credit pool is not in the stable
\* order, with a pair whose credit had an acceptable rival of equal amount.
C9_Witness ==
    /\ pc = "done"
    /\ ImportiDareDistinti
    /\ NessunPareggio
    /\ crediti # OrdineStabile(PoolAvere, ColAvere)
    /\ \E k \in 1..NCoppie :
          LET p == riconciliati[k]
          IN  \E c \in PoolAvere \ AverePrima(k) :
                  /\ c # p.ID_Avere
                  /\ Avere(c) = Avere(p.ID_Avere)
                  /\ Accettabile(p.ID_Dare, c)

\* C10: maximality.  At the end no unpaired debit and unpaired credit are
\* acceptable for each other.
C10_Maximal ==
    pc = "done" =>
        \A d \in PoolDare \ LatoDare : \A c \in PoolAvere \ LatoAvere :
            ~Accettabile(d, c)

\* A finished run with a pair, and an unpaired debit and an unpaired credit
\* within tolerance of each other (their similarity is below the threshold).
C10_Witness ==
    /\ pc = "done"
    /\ NCoppie >= 1
    /\ \E d \in PoolDare \ LatoDare : \E c \in PoolAvere \ LatoAvere :
          DiffID(d, c) <= tolleranza

\* C6: consumed sets.  The consumed debits and the consumed credits are
\* disjoint, and with the residue they cover the identifiers with no overlap.
C6_ConsumedDisjoint ==
    pc = "done" =>
        /\ id_usati_debito \cap id_usati_credito = {}
        /\ id_usati_debito \cup id_usati_credito \cup df_residui = IDs
        /\ (id_usati_debito \cup id_usati_credito) \cap df_residui = {}

\* C7: normalisation idempotence.  Normalising the result of the normaliser
\* gives the same token.
C7_Idempotence == pcN = "due" => nome_due = nome_una

====
